---- MODULE Spec2Model ----
(***************************************************************************)
(* A model of @nuintun/ansi: the incremental ANSI tokenizer (Ansi.#read),  *)
(* the SGR decoder (Ansi.#process), the colour palette built by the        *)
(* constructor, and the session operations write and flush.                *)
(*                                                                         *)
(* Text is a sequence of character codes, so that the character classes of *)
(* the tokenizer are ranges of codes exactly as the patterns state them.   *)
(***************************************************************************)
EXTENDS Integers, Sequences, FiniteSets, TLC

\* ------------------------------------------------------------ characters

\* '\x1B', the escape marker
ESC == 27

\* '[', the CSI introducer
LBracket == 91

\* ']', the OSC introducer
RBracket == 93

\* '('
LParen == 40

\* '8' and ';' of the hyperlink introducer ESC ] 8 ;
Eight == 56

Semicolon == 59

\* 'm', the SGR command byte
CmdM == 109

\* BEL, the one-byte string terminator; Backslash closes the two-byte one
BEL == 7

Backslash == 92

\* ':' is the one printable character the CSI pattern treats as illegal
Colon == 58

Zero == 48

Nine == 57

IsDigit(c) == c >= Zero /\ c <= Nine

\* The character codes of the patterns' classes (7-bit)
Chars == 0..127

\* ------------------------------------------------------------ strings

\* s.slice(n): s without its first n characters
Slice(s, n) == SubSeq(s, n + 1, Len(s))

\* s.indexOf(c): the 0-based position of the first c, -1 when there is none
IndexOf(s, c) ==
  IF \E i \in 1..Len(s) : s[i] = c
  THEN (CHOOSE i \in 1..Len(s) : s[i] = c /\ \A j \in 1..(i - 1) : s[j] # c) - 1
  ELSE 0 - 1

\* The 1-based position just after the longest run, starting at position i,
\* of characters of the class (a greedy character-class repetition).
RunEnd(s, i, class) ==
  CHOOSE j \in i..(Len(s) + 1) :
    /\ \A k \in i..(j - 1) : s[k] \in class
    /\ (j = Len(s) + 1 \/ s[j] \notin class)

\* ------------------------------------------------------------ tokens

\* A token: its type, what it leaves in the buffer, and its payload.
\* url is a sequence of zero or one strings (absent / present).
Token(type, rest) ==
  [type |-> type, rest |-> rest, value |-> <<>>, url |-> <<>>, signal |-> <<>>]

\* ------------------------------------------------------------ patterns

\* PRIVATE-MODE-CHAR: ! < > ?
IsPrivate(c) == c \in {33, 60, 62, 63}

\* Numeric parameters separated by semicolons
IsParam(c) == IsDigit(c) \/ c = Semicolon

\* Intermediate-modifiers, 0x20 - 0x2f
IsIntermediate(c) == c >= 32 /\ c <= 47

\* COMMAND-CHAR, 0x40 - 0x7e
IsCommand(c) == c >= 64 /\ c <= 126

\* The printable range 0x20 - 0x7e
IsPrintable(c) == c >= 32 /\ c <= 126

\* What the CSI pattern's second alternative ends on: a control character or ':'
IsCsiIllegal(c) == (c >= 0 /\ c <= 31) \/ c = Colon

\* buffer.match(CSI_RE).  The first alternative is the legal sequence
\*   ESC [ private? params* intermediate? command
\* (groups 1, 2, 3: private, params, command); the second is ESC [, any
\* printable characters, and one illegal character (group 4).  Every
\* repetition is greedy and no shorter repetition can match where the longest
\* fails, because the classes that follow each other are disjoint.
CSI_RE(buffer) ==
  LET n == Len(buffer)
      p1 == IF n >= 3 /\ IsPrivate(buffer[3]) THEN 4 ELSE 3
      p2 == RunEnd(buffer, p1, {ch \in Chars : IsParam(ch)})
      p3 == IF p2 <= n /\ IsIntermediate(buffer[p2]) THEN p2 + 1 ELSE p2
      q == RunEnd(buffer, 3, {ch \in Chars : IsPrintable(ch)})
      none == [matched |-> FALSE, length |-> 0, private |-> <<>>,
               params |-> <<>>, command |-> <<>>, illegal |-> <<>>]
  IN IF ~(n >= 2 /\ buffer[1] = ESC /\ buffer[2] = LBracket) THEN none
     ELSE IF p3 <= n /\ IsCommand(buffer[p3])
       THEN [matched |-> TRUE, length |-> p3,
             private |-> SubSeq(buffer, 3, p1 - 1),
             params |-> SubSeq(buffer, p1, p2 - 1),
             command |-> <<buffer[p3]>>, illegal |-> <<>>]
     ELSE IF q <= n /\ IsCsiIllegal(buffer[q])
       THEN [none EXCEPT !.matched = TRUE, !.length = q, !.illegal = <<buffer[q]>>]
     ELSE IF \E k \in 3..(q - 1) : buffer[k] = Colon
       THEN [none EXCEPT !.matched = TRUE, !.illegal = <<Colon>>,
               !.length = CHOOSE k \in 3..(q - 1) :
                  buffer[k] = Colon /\ \A j \in (k + 1)..(q - 1) : buffer[j] # Colon]
     ELSE none

\* What invalidates a string-terminator scan: the control characters other
\* than BEL and ESC
IsStIllegal(c) == (c >= 0 /\ c <= 6) \/ (c >= 8 /\ c <= 26) \/ (c >= 28 /\ c <= 31)

\* The length of the string terminator at 1-based position i: ESC \ or BEL
StLen(s, i) ==
  IF i > Len(s) THEN 0
  ELSE IF s[i] = ESC /\ i + 1 <= Len(s) /\ s[i + 1] = Backslash THEN 2
  ELSE IF s[i] = BEL THEN 1
  ELSE 0

\* OSC_ST_RE.exec(s) with the pattern's lastIndex as given: the leftmost
\* string terminator (groups 1, 2) or illegal character (group 3) at or
\* after lastIndex, and the lastIndex it leaves (0 when nothing matches).
OSC_ST_RE(s, lastIndex) ==
  LET hits == {i \in (lastIndex + 1)..Len(s) : StLen(s, i) > 0 \/ IsStIllegal(s[i])}
  IN IF hits = {}
     THEN [matched |-> FALSE, illegal |-> FALSE, lastIndex |-> 0]
     ELSE LET i == CHOOSE h \in hits : \A g \in hits : h <= g
          IN [matched |-> TRUE,
              illegal |-> StLen(s, i) = 0,
              lastIndex |-> IF StLen(s, i) = 0 THEN i ELSE i - 1 + StLen(s, i)]

\* hyperlink parameters: printable, except ';'
IsOscParam(c) == IsPrintable(c) /\ c # Semicolon

\* the link target: printable, except the space
IsUrlChar(c) == c >= 33 /\ c <= 126

\* whether the literal lit stands at 1-based position i of s
HasAt(s, i, lit) ==
  i + Len(lit) - 1 <= Len(s) /\ SubSeq(s, i, i + Len(lit) - 1) = lit

\* buffer.match(OSC_RE):
\*   ESC ] 8 ; params ; url ST text ESC ] 8 ; ; ST
\* with groups 1 and 2 the url and the (non-empty) text.
OSC_RE(buffer) ==
  LET n == Len(buffer)
      a == RunEnd(buffer, 5, {ch \in Chars : IsOscParam(ch)})
      b == RunEnd(buffer, a + 1, {ch \in Chars : IsUrlChar(ch)})
      c == b + StLen(buffer, b)
      d == RunEnd(buffer, c, {ch \in Chars : IsPrintable(ch)})
      e == d + 5
      none == [matched |-> FALSE, length |-> 0, url |-> <<>>, text |-> <<>>]
  IN IF /\ HasAt(buffer, 1, <<ESC, RBracket, Eight, Semicolon>>)
        /\ a <= n
        /\ buffer[a] = Semicolon
        /\ StLen(buffer, b) > 0
        /\ d > c
        /\ HasAt(buffer, d, <<ESC, RBracket, Eight, Semicolon, Semicolon>>)
        /\ StLen(buffer, e) > 0
     THEN [matched |-> TRUE, length |-> e - 1 + StLen(buffer, e),
           url |-> SubSeq(buffer, a + 1, b - 1), text |-> SubSeq(buffer, c, d - 1)]
     ELSE none

\* ------------------------------------------------------------ tokenizer

\* ReadCSI that takes an unfinished sequence for an illegal one
ReadCSINeverWaits(buffer) ==
  LET match == CSI_RE(buffer)
  IN IF ~match.matched \/ match.illegal # <<>> THEN Token("ESC", Slice(buffer, 1))
     ELSE IF match.private # <<>> \/ match.command # <<CmdM>>
       THEN Token("UNKNOWN", Slice(buffer, match.length))
     ELSE [Token("SGR", Slice(buffer, match.length)) EXCEPT !.signal = match.params]

\* ReadCSI that takes every sequence that ends in "m" for SGR
ReadCSIIgnoresPrivate(buffer) ==
  LET match == CSI_RE(buffer)
  IN IF ~match.matched THEN Token("INCESC", buffer)
     ELSE IF match.illegal # <<>> THEN Token("ESC", Slice(buffer, 1))
     ELSE IF match.command # <<CmdM>>
       THEN Token("UNKNOWN", Slice(buffer, match.length))
     ELSE [Token("SGR", Slice(buffer, match.length)) EXCEPT !.signal = match.params]

\* The CSI branch of #read
ReadCSI(buffer) ==
  LET match == CSI_RE(buffer)
  IN IF ~match.matched THEN Token("INCESC", buffer)
     ELSE IF match.illegal # <<>> THEN Token("ESC", Slice(buffer, 1))
     ELSE IF match.private # <<>> \/ match.command # <<CmdM>>
       THEN Token("UNKNOWN", Slice(buffer, match.length))
     ELSE [Token("SGR", Slice(buffer, match.length)) EXCEPT !.signal = match.params]

\* ReadOSC that gives up a hyperlink whose terminators are not yet there
ReadOSCNeverWaits(buffer, lastIndex) ==
  LET length == Len(buffer)
      first == OSC_ST_RE(buffer, 0)
      second == OSC_ST_RE(buffer, first.lastIndex)
      match == OSC_RE(buffer)
  IN IF length < 4 THEN Token("INCESC", buffer)
     ELSE IF buffer[3] # Eight \/ buffer[4] # Semicolon THEN Token("ESC", Slice(buffer, 1))
     ELSE IF ~first.matched THEN Token("ESC", Slice(buffer, 1))
     ELSE IF first.illegal THEN Token("ESC", Slice(buffer, 1))
     ELSE IF ~second.matched THEN Token("ESC", Slice(buffer, 1))
     ELSE IF second.illegal THEN Token("ESC", Slice(buffer, 1))
     ELSE IF ~match.matched THEN Token("ESC", Slice(buffer, 1))
     ELSE [Token("OSC", Slice(buffer, match.length))
             EXCEPT !.url = <<match.url>>, !.value = match.text]

\* ReadOSC that removes an OSC sequence of another kind through its terminator
ReadOSCSkipsOthers(buffer, lastIndex) ==
  LET length == Len(buffer)
      first == OSC_ST_RE(buffer, 0)
      second == OSC_ST_RE(buffer, first.lastIndex)
      match == OSC_RE(buffer)
  IN IF length < 4 THEN Token("INCESC", buffer)
     ELSE IF buffer[3] # Eight \/ buffer[4] # Semicolon
       THEN IF first.matched /\ ~first.illegal
            THEN Token("UNKNOWN", Slice(buffer, first.lastIndex))
            ELSE Token("ESC", Slice(buffer, 1))
     ELSE IF ~first.matched THEN Token("INCESC", buffer)
     ELSE IF first.illegal THEN Token("ESC", Slice(buffer, 1))
     ELSE IF ~second.matched THEN Token("INCESC", buffer)
     ELSE IF second.illegal THEN Token("ESC", Slice(buffer, 1))
     ELSE IF ~match.matched THEN Token("ESC", Slice(buffer, 1))
     ELSE [Token("OSC", Slice(buffer, match.length))
             EXCEPT !.url = <<match.url>>, !.value = match.text]

\* ReadOSC without `OSC_ST_RE.lastIndex = 0`: the first search for a string
\* terminator starts where the previous use of the pattern left off
ReadOSCNoReset(buffer, lastIndex) ==
  LET length == Len(buffer)
      first == OSC_ST_RE(buffer, lastIndex)
      second == OSC_ST_RE(buffer, first.lastIndex)
      match == OSC_RE(buffer)
  IN IF length < 4 THEN Token("INCESC", buffer)
     ELSE IF buffer[3] # Eight \/ buffer[4] # Semicolon THEN Token("ESC", Slice(buffer, 1))
     ELSE IF ~first.matched THEN Token("INCESC", buffer)
     ELSE IF first.illegal THEN Token("ESC", Slice(buffer, 1))
     ELSE IF ~second.matched THEN Token("INCESC", buffer)
     ELSE IF second.illegal THEN Token("ESC", Slice(buffer, 1))
     ELSE IF ~match.matched THEN Token("ESC", Slice(buffer, 1))
     ELSE [Token("OSC", Slice(buffer, match.length))
             EXCEPT !.url = <<match.url>>, !.value = match.text]

\* The OSC branch of #read. OSC_ST_RE is one pattern object of the module,
\* used by every session, and lastIndex is the position its previous use left
\* in it; `OSC_ST_RE.lastIndex = 0` replaces that position before the first
\* search, so the two searches start at 0 and at the end of the first match.
ReadOSC(buffer, lastIndex) ==
  LET length == Len(buffer)
      first == OSC_ST_RE(buffer, 0)
      second == OSC_ST_RE(buffer, first.lastIndex)
      match == OSC_RE(buffer)
  IN IF length < 4 THEN Token("INCESC", buffer)
     ELSE IF buffer[3] # Eight \/ buffer[4] # Semicolon THEN Token("ESC", Slice(buffer, 1))
     ELSE IF ~first.matched THEN Token("INCESC", buffer)
     ELSE IF first.illegal THEN Token("ESC", Slice(buffer, 1))
     ELSE IF ~second.matched THEN Token("INCESC", buffer)
     ELSE IF second.illegal THEN Token("ESC", Slice(buffer, 1))
     ELSE IF ~match.matched THEN Token("ESC", Slice(buffer, 1))
     ELSE [Token("OSC", Slice(buffer, match.length))
             EXCEPT !.url = <<match.url>>, !.value = match.text]

\* OSC_ST_RE.lastIndex after #read: the OSC branch sets it to 0 and each exec
\* moves it to the end of its match, or back to 0 when it finds none; no other
\* branch touches the pattern.
Scanned(buffer, lastIndex) ==
  LET length == Len(buffer)
      first == OSC_ST_RE(buffer, 0)
      second == OSC_ST_RE(buffer, first.lastIndex)
  IN IF length < 4 \/ IndexOf(buffer, ESC) # 0 \/ buffer[2] # RBracket THEN lastIndex
     ELSE IF buffer[3] # Eight \/ buffer[4] # Semicolon THEN lastIndex
     ELSE IF ~first.matched \/ first.illegal THEN first.lastIndex
     ELSE second.lastIndex

\* ReadSequence that drops the character after a bare ESC as well
ReadSequenceDropsTwo(buffer, lastIndex) ==
  LET peek == buffer[2]
  IN IF peek # LBracket /\ peek # RBracket /\ peek # LParen
       THEN Token("ESC", Slice(buffer, 2))
     ELSE IF peek = LBracket THEN ReadCSI(buffer)
     ELSE IF peek = RBracket THEN ReadOSC(buffer, lastIndex)
     ELSE Token("EOS", buffer)

\* #read, once the buffer starts with ESC and holds three characters or more
ReadSequence(buffer, lastIndex) ==
  LET peek == buffer[2]
  IN IF peek # LBracket /\ peek # RBracket /\ peek # LParen
       THEN Token("ESC", Slice(buffer, 1))
     ELSE IF peek = LBracket THEN ReadCSI(buffer)
     ELSE IF peek = RBracket THEN ReadOSC(buffer, lastIndex)
     ELSE Token("EOS", buffer)

\* Read that hands out the text before an ESC only, also when there is no ESC
ReadKeepsLastChar(buffer, lastIndex) ==
  LET length == Len(buffer)
      pos == IndexOf(buffer, ESC)
  IN IF length = 0 THEN Token("EOS", buffer)
     ELSE IF pos < 0 /\ length > 1
       THEN [Token("TEXT", Slice(buffer, length - 1))
               EXCEPT !.value = SubSeq(buffer, 1, length - 1)]
     ELSE IF pos < 0 THEN [Token("TEXT", <<>>) EXCEPT !.value = buffer]
     ELSE IF pos > 0
       THEN [Token("TEXT", Slice(buffer, pos)) EXCEPT !.value = SubSeq(buffer, 1, pos)]
     ELSE IF length < 3 THEN Token("INCESC", buffer)
     ELSE ReadSequence(buffer, lastIndex)

\* Read that leaves the text before an ESC in the buffer, not what follows it
ReadLeavesTheText(buffer, lastIndex) ==
  LET length == Len(buffer)
      pos == IndexOf(buffer, ESC)
  IN IF length = 0 THEN Token("EOS", buffer)
     ELSE IF pos < 0 THEN [Token("TEXT", <<>>) EXCEPT !.value = buffer]
     ELSE IF pos > 0
       THEN [Token("TEXT", SubSeq(buffer, 1, pos)) EXCEPT !.value = SubSeq(buffer, 1, pos)]
     ELSE IF length < 3 THEN Token("INCESC", buffer)
     ELSE ReadSequence(buffer, lastIndex)

\* Read that removes the ESC together with the text before it
ReadSlicesPastEsc(buffer, lastIndex) ==
  LET length == Len(buffer)
      pos == IndexOf(buffer, ESC)
  IN IF length = 0 THEN Token("EOS", buffer)
     ELSE IF pos < 0 THEN [Token("TEXT", <<>>) EXCEPT !.value = buffer]
     ELSE IF pos > 0
       THEN [Token("TEXT", Slice(buffer, pos + 1)) EXCEPT !.value = SubSeq(buffer, 1, pos)]
     ELSE IF length < 3 THEN Token("INCESC", buffer)
     ELSE ReadSequence(buffer, lastIndex)

\* #read: the next token of the buffer
Read(buffer, lastIndex) ==
  LET length == Len(buffer)
      pos == IndexOf(buffer, ESC)
  IN IF length = 0 THEN Token("EOS", buffer)
     ELSE IF pos < 0 THEN [Token("TEXT", <<>>) EXCEPT !.value = buffer]
     ELSE IF pos > 0
       THEN [Token("TEXT", Slice(buffer, pos)) EXCEPT !.value = SubSeq(buffer, 1, pos)]
     ELSE IF length < 3 THEN Token("INCESC", buffer)
     ELSE ReadSequence(buffer, lastIndex)

\* ------------------------------------------------------------ palette

\* A colour that is not set (null, or an absent theme entry)
Null == <<>>

\* The parseInt result that is not a number
NaN == 0 - 1

\* toUint8 that keeps the low seven bits
toUint7(uint8) == IF uint8 = NaN THEN 0 ELSE uint8 % 128

\* toUint8: uint8 & 0xff (NaN converts to 0 before the mask)
toUint8(uint8) == IF uint8 = NaN THEN 0 ELSE uint8 % 256

\* COLOR_SEEDS with the last seed mistyped
COLOR_SEEDS_250 == <<0, 95, 135, 175, 215, 250>>

COLOR_SEEDS == <<0, 95, 135, 175, 215, 255>>

RECURSIVE CubeB(_, _, _)
\* for (let b = 0; b < 6; ++b) COLORS256_FIXED.push(...): what the loop
\* pushes from b on
CubeB(r, g, b) ==
  IF b < 6
  THEN <<<<COLOR_SEEDS[r + 1], COLOR_SEEDS[g + 1], COLOR_SEEDS[b + 1]>>>> \o CubeB(r, g, b + 1)
  ELSE <<>>

RECURSIVE CubeG(_, _)
\* for (let g = 0; g < 6; ++g): what the loop pushes from g on
CubeG(r, g) ==
  IF g < 6 THEN CubeB(r, g, 0) \o CubeG(r, g + 1) ELSE <<>>

RECURSIVE CubeR(_)
\* for (let r = 0; r < 6; ++r): what the loop pushes from r on
CubeR(r) ==
  IF r < 6 THEN CubeG(r, 0) \o CubeR(r + 1) ELSE <<>>

RECURSIVE Grayscale(_, _)
\* for (let i = 0; i < 24; ++i, grayscale += 10) COLORS256_FIXED.push(...):
\* what the loop pushes from i on
Grayscale(i, grayscale) ==
  IF i < 24
  THEN <<<<grayscale, grayscale, grayscale>>>> \o Grayscale(i + 1, grayscale + 10)
  ELSE <<>>

\* Colors 256 bit 16..255
COLORS256_FIXED == CubeR(0) \o Grayscale(0, 8)

\* getThemeColor(defaultColor, color)
getThemeColor(defaultColor, color) ==
  IF color # Null
  THEN <<toUint8(color[1]), toUint8(color[2]), toUint8(color[3])>>
  ELSE defaultColor

\* A theme is an object whose entries are all optional: a function from the
\* names it sets to their values.  The theme with no entry at all, {}:
EmptyTheme == [name \in {} |-> Null]

\* theme.name, Null when the theme does not set it
Entry(theme, name) == IF name \in DOMAIN theme THEN theme[name] ELSE Null

\* The constructor's colors16
Colors16(theme) ==
  << getThemeColor(<<0, 0, 0>>, Entry(theme, "black")),
     getThemeColor(<<128, 0, 0>>, Entry(theme, "red")),
     getThemeColor(<<0, 128, 0>>, Entry(theme, "green")),
     getThemeColor(<<128, 128, 0>>, Entry(theme, "yellow")),
     getThemeColor(<<0, 0, 128>>, Entry(theme, "blue")),
     getThemeColor(<<128, 0, 128>>, Entry(theme, "magenta")),
     getThemeColor(<<0, 128, 128>>, Entry(theme, "cyan")),
     getThemeColor(<<192, 192, 192>>, Entry(theme, "white")),
     getThemeColor(<<128, 128, 128>>, Entry(theme, "brightBlack")),
     getThemeColor(<<255, 0, 0>>, Entry(theme, "brightRed")),
     getThemeColor(<<0, 255, 0>>, Entry(theme, "brightGreen")),
     getThemeColor(<<255, 255, 0>>, Entry(theme, "brightYellow")),
     getThemeColor(<<0, 0, 255>>, Entry(theme, "brightBlue")),
     getThemeColor(<<255, 0, 255>>, Entry(theme, "brightMagenta")),
     getThemeColor(<<0, 255, 255>>, Entry(theme, "brightCyan")),
     getThemeColor(<<255, 255, 255>>, Entry(theme, "brightWhite")) >>

\* Colors256 that applies the per-index overrides to the entries 16..255 only
Colors256KeepsBase(theme) ==
  LET all == Colors16(theme) \o COLORS256_FIXED
      themeColors256 == Entry(theme, "colors256")
  IN [index \in 1..Len(all) |->
        getThemeColor(all[index],
                      IF index > 16 /\ index <= Len(themeColors256)
                      THEN themeColors256[index] ELSE Null)]

\* The constructor's colors256: [...colors16, ...COLORS256_FIXED].map(...)
Colors256(theme) ==
  LET all == Colors16(theme) \o COLORS256_FIXED
      themeColors256 == Entry(theme, "colors256")
  IN [index \in 1..Len(all) |->
        getThemeColor(all[index],
                      IF index <= Len(themeColors256) THEN themeColors256[index] ELSE Null)]

\* ------------------------------------------------------------ style

\* The initial #style
DefaultStyle ==
  [dim |-> FALSE, bold |-> FALSE, color |-> Null, blink |-> FALSE,
   hidden |-> FALSE, italic |-> FALSE, inverse |-> FALSE, overline |-> FALSE,
   background |-> Null, underline |-> FALSE, strikethrough |-> FALSE]

\* #reset
Reset(style) ==
  [style EXCEPT !.dim = FALSE, !.bold = FALSE, !.color = Null, !.blink = FALSE,
                !.hidden = FALSE, !.italic = FALSE, !.inverse = FALSE,
                !.background = Null, !.underline = FALSE, !.strikethrough = FALSE]

RECURSIVE Split(_)
\* signal.split(';')
Split(signal) ==
  LET pos == IndexOf(signal, Semicolon)
  IN IF pos < 0 THEN <<signal>>
     ELSE <<SubSeq(signal, 1, pos)>> \o Split(Slice(signal, pos + 1))

RECURSIVE Digits(_, _)
\* the value of the decimal digits of s, after the value acc of those before
Digits(s, acc) ==
  IF s = <<>> \/ ~IsDigit(s[1]) THEN acc
  ELSE Digits(Tail(s), acc * 10 + (s[1] - Zero))

\* parseInt(s, 10) of a parameter (digits only, or empty)
ParseInt(s) == IF s = <<>> \/ ~IsDigit(s[1]) THEN NaN ELSE Digits(s, 0)

\* Switch that takes the bright codes 90..97 and 100..107 for the base entries 0..7
SwitchNoBrightOffset(style, code, sequences, index, colors16, colors256) ==
  LET maxIndex == Len(sequences) - 1
      at(i) == ParseInt(sequences[i + 1])
      same == [style |-> style, index |-> index]
      set(st) == [style |-> st, index |-> index]
  IN CASE code = 0 -> set(Reset(style))
       [] code = 1 -> set([style EXCEPT !.bold = TRUE])
       [] code = 2 -> set([style EXCEPT !.dim = TRUE])
       [] code = 3 -> set([style EXCEPT !.italic = TRUE])
       [] code = 4 -> set([style EXCEPT !.underline = TRUE])
       [] code = 5 -> set([style EXCEPT !.blink = TRUE])
       [] code = 7 -> set([style EXCEPT !.inverse = TRUE])
       [] code = 8 -> set([style EXCEPT !.hidden = TRUE])
       [] code = 9 -> set([style EXCEPT !.strikethrough = TRUE])
       [] code = 21 -> set([style EXCEPT !.bold = FALSE])
       [] code = 22 -> set([style EXCEPT !.dim = FALSE, !.bold = FALSE])
       [] code = 23 -> set([style EXCEPT !.italic = FALSE])
       [] code = 24 -> set([style EXCEPT !.underline = FALSE])
       [] code = 25 -> set([style EXCEPT !.blink = FALSE])
       [] code = 27 -> set([style EXCEPT !.inverse = FALSE])
       [] code = 28 -> set([style EXCEPT !.hidden = FALSE])
       [] code = 29 -> set([style EXCEPT !.strikethrough = FALSE])
       [] code = 38 \/ code = 48 ->
            IF index < maxIndex
            THEN LET mode == at(index)
                     isForeground == code = 38
                     paint(color, next) ==
                       [style |-> IF isForeground
                                  THEN [style EXCEPT !.color = color]
                                  ELSE [style EXCEPT !.background = color],
                        index |-> next]
                 IN CASE mode = 2 ->
                           IF (index + 1) + 2 <= maxIndex
                           THEN paint(<<toUint8(at(index + 1)), toUint8(at(index + 2)),
                                        toUint8(at(index + 3))>>, index + 4)
                           ELSE [style |-> style, index |-> index + 1]
                      [] mode = 5 ->
                           IF index + 1 <= maxIndex
                           THEN paint(colors256[toUint8(at(index + 1)) + 1], index + 2)
                           ELSE [style |-> style, index |-> index + 1]
                      [] OTHER -> [style |-> style, index |-> index + 1]
            ELSE same
       [] code = 39 -> set([style EXCEPT !.color = Null])
       [] code = 49 -> set([style EXCEPT !.background = Null])
       [] code = 53 -> set([style EXCEPT !.overline = TRUE])
       [] code = 55 -> set([style EXCEPT !.overline = FALSE])
       [] OTHER ->
            IF code >= 30 /\ code < 38 THEN set([style EXCEPT !.color = colors16[code - 30 + 1]])
            ELSE IF code >= 40 /\ code < 48
              THEN set([style EXCEPT !.background = colors16[code - 40 + 1]])
            ELSE IF code >= 90 /\ code < 98
              THEN set([style EXCEPT !.color = colors16[code - 90 + 1]])
            ELSE IF code >= 100 /\ code < 108
              THEN set([style EXCEPT !.background = colors16[code - 100 + 1]])
            ELSE same

\* Switch whose code 22 clears bold only
SwitchNormalIntensityKeepsDim(style, code, sequences, index, colors16, colors256) ==
  LET maxIndex == Len(sequences) - 1
      at(i) == ParseInt(sequences[i + 1])
      same == [style |-> style, index |-> index]
      set(st) == [style |-> st, index |-> index]
  IN CASE code = 0 -> set(Reset(style))
       [] code = 1 -> set([style EXCEPT !.bold = TRUE])
       [] code = 2 -> set([style EXCEPT !.dim = TRUE])
       [] code = 3 -> set([style EXCEPT !.italic = TRUE])
       [] code = 4 -> set([style EXCEPT !.underline = TRUE])
       [] code = 5 -> set([style EXCEPT !.blink = TRUE])
       [] code = 7 -> set([style EXCEPT !.inverse = TRUE])
       [] code = 8 -> set([style EXCEPT !.hidden = TRUE])
       [] code = 9 -> set([style EXCEPT !.strikethrough = TRUE])
       [] code = 21 -> set([style EXCEPT !.bold = FALSE])
       [] code = 22 -> set([style EXCEPT !.bold = FALSE])
       [] code = 23 -> set([style EXCEPT !.italic = FALSE])
       [] code = 24 -> set([style EXCEPT !.underline = FALSE])
       [] code = 25 -> set([style EXCEPT !.blink = FALSE])
       [] code = 27 -> set([style EXCEPT !.inverse = FALSE])
       [] code = 28 -> set([style EXCEPT !.hidden = FALSE])
       [] code = 29 -> set([style EXCEPT !.strikethrough = FALSE])
       [] code = 38 \/ code = 48 ->
            IF index < maxIndex
            THEN LET mode == at(index)
                     isForeground == code = 38
                     paint(color, next) ==
                       [style |-> IF isForeground
                                  THEN [style EXCEPT !.color = color]
                                  ELSE [style EXCEPT !.background = color],
                        index |-> next]
                 IN CASE mode = 2 ->
                           IF (index + 1) + 2 <= maxIndex
                           THEN paint(<<toUint8(at(index + 1)), toUint8(at(index + 2)),
                                        toUint8(at(index + 3))>>, index + 4)
                           ELSE [style |-> style, index |-> index + 1]
                      [] mode = 5 ->
                           IF index + 1 <= maxIndex
                           THEN paint(colors256[toUint8(at(index + 1)) + 1], index + 2)
                           ELSE [style |-> style, index |-> index + 1]
                      [] OTHER -> [style |-> style, index |-> index + 1]
            ELSE same
       [] code = 39 -> set([style EXCEPT !.color = Null])
       [] code = 49 -> set([style EXCEPT !.background = Null])
       [] code = 53 -> set([style EXCEPT !.overline = TRUE])
       [] code = 55 -> set([style EXCEPT !.overline = FALSE])
       [] OTHER ->
            IF code >= 30 /\ code < 38 THEN set([style EXCEPT !.color = colors16[code - 30 + 1]])
            ELSE IF code >= 40 /\ code < 48
              THEN set([style EXCEPT !.background = colors16[code - 40 + 1]])
            ELSE IF code >= 90 /\ code < 98
              THEN set([style EXCEPT !.color = colors16[code - 82 + 1]])
            ELSE IF code >= 100 /\ code < 108
              THEN set([style EXCEPT !.background = colors16[code - 92 + 1]])
            ELSE same

\* One turn of the switch of #process: code has been read and index is the
\* cursor that read() left.  Gives the style and the cursor after the case.
Switch(style, code, sequences, index, colors16, colors256) ==
  LET maxIndex == Len(sequences) - 1
      at(i) == ParseInt(sequences[i + 1])
      same == [style |-> style, index |-> index]
      set(st) == [style |-> st, index |-> index]
  IN CASE code = 0 -> set(Reset(style))
       [] code = 1 -> set([style EXCEPT !.bold = TRUE])
       [] code = 2 -> set([style EXCEPT !.dim = TRUE])
       [] code = 3 -> set([style EXCEPT !.italic = TRUE])
       [] code = 4 -> set([style EXCEPT !.underline = TRUE])
       [] code = 5 -> set([style EXCEPT !.blink = TRUE])
       [] code = 7 -> set([style EXCEPT !.inverse = TRUE])
       [] code = 8 -> set([style EXCEPT !.hidden = TRUE])
       [] code = 9 -> set([style EXCEPT !.strikethrough = TRUE])
       [] code = 21 -> set([style EXCEPT !.bold = FALSE])
       [] code = 22 -> set([style EXCEPT !.dim = FALSE, !.bold = FALSE])
       [] code = 23 -> set([style EXCEPT !.italic = FALSE])
       [] code = 24 -> set([style EXCEPT !.underline = FALSE])
       [] code = 25 -> set([style EXCEPT !.blink = FALSE])
       [] code = 27 -> set([style EXCEPT !.inverse = FALSE])
       [] code = 28 -> set([style EXCEPT !.hidden = FALSE])
       [] code = 29 -> set([style EXCEPT !.strikethrough = FALSE])
       [] code = 38 \/ code = 48 ->
            IF index < maxIndex
            THEN LET mode == at(index)
                     isForeground == code = 38
                     paint(color, next) ==
                       [style |-> IF isForeground
                                  THEN [style EXCEPT !.color = color]
                                  ELSE [style EXCEPT !.background = color],
                        index |-> next]
                 IN CASE mode = 2 ->
                           IF (index + 1) + 2 <= maxIndex
                           THEN paint(<<toUint8(at(index + 1)), toUint8(at(index + 2)),
                                        toUint8(at(index + 3))>>, index + 4)
                           ELSE [style |-> style, index |-> index + 1]
                      [] mode = 5 ->
                           IF index + 1 <= maxIndex
                           THEN paint(colors256[toUint8(at(index + 1)) + 1], index + 2)
                           ELSE [style |-> style, index |-> index + 1]
                      [] OTHER -> [style |-> style, index |-> index + 1]
            ELSE same
       [] code = 39 -> set([style EXCEPT !.color = Null])
       [] code = 49 -> set([style EXCEPT !.background = Null])
       [] code = 53 -> set([style EXCEPT !.overline = TRUE])
       [] code = 55 -> set([style EXCEPT !.overline = FALSE])
       [] OTHER ->
            IF code >= 30 /\ code < 38 THEN set([style EXCEPT !.color = colors16[code - 30 + 1]])
            ELSE IF code >= 40 /\ code < 48
              THEN set([style EXCEPT !.background = colors16[code - 40 + 1]])
            ELSE IF code >= 90 /\ code < 98
              THEN set([style EXCEPT !.color = colors16[code - 82 + 1]])
            ELSE IF code >= 100 /\ code < 108
              THEN set([style EXCEPT !.background = colors16[code - 92 + 1]])
            ELSE same

RECURSIVE Loop(_, _, _, _, _)
\* The for loop of #process, from cursor index: `code = read()` advances the
\* cursor once, the case may advance it further, and the loop's own index++
\* advances it once more.
Loop(style, sequences, index, colors16, colors256) ==
  IF index <= Len(sequences) - 1
  THEN LET code == ParseInt(sequences[index + 1])
           turn == Switch(style, code, sequences, index + 1, colors16, colors256)
       IN Loop(turn.style, sequences, turn.index + 1, colors16, colors256)
  ELSE style

\* #process(signal): the style after the SGR parameter string signal
Process(style, signal, colors16, colors256) ==
  Loop(style, Split(signal), 0, colors16, colors256)

\* Block that leaves the url out
BlockWithoutUrl(token, style) ==
  [value |-> token.value, style |-> style, url |-> <<>>]

\* #block(token): the block of a TEXT or OSC token, with a copy of the style
Block(token, style) ==
  [value |-> token.value, style |-> style, url |-> token.url]

\* ------------------------------------------------------------ session

VARIABLES
  theme,      \* the theme #colors16 and #colors256 are the palette of: the
              \* constructor's argument, until a caller writes into their arrays
  buffer,     \* #buffer
  style,      \* #style
  pc,         \* "idle", or "write" while a write call is in its loop
  iter,       \* the parity of the turns the loop of the current call has made
  out,        \* the blocks handed to the callbacks, in order
  call,       \* the current (or last) call and the state it started from
  last,       \* the last token #read returned, and the state it was read in
  written,    \* all text given to write since construction or the last flush
  calls,      \* the number of calls made
  plan,       \* the texts still to write, for the planned specifications
  lastIndex,  \* OSC_ST_RE.lastIndex, of the one pattern all sessions use
  refs,       \* #style with, for each colour, the array object it refers to
  other       \* a second session, and what it does when it runs alone

vars ==
  <<theme, buffer, style, pc, iter, out, call, last,
    written, calls, plan, lastIndex, refs, other>>

\* #colors16 and #colors256: set by the constructor and never assigned again
colors16 == Colors16(theme)

colors256 == Colors256(theme)

\* The array objects of #colors16, named <<16, k>> for entry k
Tag16 == [index \in 1..16 |-> <<16, index - 1>>]

\* The array objects of #colors256, named <<256, n>> for entry n: where
\* getThemeColor is given no override it returns defaultColor itself, so
\* without an override an entry below 16 is the very array of #colors16
Tag256 ==
  LET themeColors256 == Entry(theme, "colors256")
  IN [index \in 1..256 |->
        IF index <= 16 /\ (index > Len(themeColors256) \/ themeColors256[index] = Null)
        THEN <<16, index - 1>>
        ELSE <<256, index - 1>>]

\* A second session, new Ansi(): its style, the blocks it has delivered and
\* the OSC_ST_RE.lastIndex its last call found, and its style and blocks in
\* the run in which it is the only user of OSC_ST_RE
NoOther ==
  [style |-> DefaultStyle, out |-> <<>>, found |-> 0,
   alone |-> [style |-> DefaultStyle, out |-> <<>>, lastIndex |-> 0]]

\* The number of write and flush calls of one behaviour
MaxCalls == 3

NoCall ==
  [op |-> "new", text |-> <<>>, buffer |-> <<>>, style |-> DefaultStyle, delivered |-> 0,
   prev |-> "new"]

NoToken ==
  [type |-> "none", before |-> <<>>, signal |-> <<>>, style |-> DefaultStyle, delivered |-> 0]

\* new Ansi(t)
Construct(t) ==
  /\ theme = t
  /\ buffer = <<>>
  /\ style = DefaultStyle
  /\ pc = "idle"
  /\ iter = 0
  /\ out = <<>>
  /\ call = NoCall
  /\ last = NoToken
  /\ written = <<>>
  /\ calls = 0
  /\ lastIndex = 0
  /\ refs = DefaultStyle
  /\ other = NoOther

\* write(text, callback), up to its loop: this.#buffer += text
Write(text) ==
  /\ pc = "idle"
  /\ calls < MaxCalls
  /\ buffer' = buffer \o text
  /\ pc' = "write"
  /\ iter' = 0
  /\ call' = [op |-> "write", text |-> text, buffer |-> buffer, style |-> style,
              delivered |-> Len(out), prev |-> call.op]
  /\ last' = NoToken
  /\ written' = written \o text
  /\ calls' = calls + 1
  /\ UNCHANGED <<theme, style, out, lastIndex, refs, other>>

\* Turn of a loop that `break` leaves: the call returns on "incomplete" and
\* on "end-of-buffer", with the buffer as it is
TurnStopsOnIncomplete ==
  /\ pc = "write"
  /\ IF buffer = <<>> \/ Read(buffer, lastIndex).type \in {"EOS", "INCESC"}
     THEN /\ pc' = "idle"
          /\ UNCHANGED <<buffer, style, out, last, iter, lastIndex, refs>>
     ELSE LET token == Read(buffer, lastIndex)
          IN /\ buffer' = token.rest
             /\ style' = IF token.type = "SGR"
                         THEN Process(style, token.signal, colors16, colors256)
                         ELSE style
             /\ out' = IF token.type \in {"OSC", "TEXT"}
                       THEN Append(out, Block(token, style))
                       ELSE out
             /\ last' = [type |-> token.type, before |-> buffer, signal |-> token.signal,
                         style |-> style, delivered |-> Len(out)]
             /\ iter' = 1 - iter
             /\ pc' = "write"
             /\ lastIndex' = Scanned(buffer, lastIndex)
             /\ refs' = IF token.type = "SGR"
                        THEN Process(refs, token.signal, Tag16, Tag256)
                        ELSE refs
  /\ UNCHANGED <<theme, call, written, calls, plan, other>>

\* One turn of `while (this.#buffer)`: the test and, when it passes, the body.
\* `break` leaves the switch only, and `continue` goes back to the test, so
\* after every token the loop tests the buffer again.
Turn ==
  /\ pc = "write"
  /\ IF buffer = <<>>
     THEN /\ pc' = "idle"
          /\ UNCHANGED <<buffer, style, out, last, iter, lastIndex, refs>>
     ELSE LET token == Read(buffer, lastIndex)
          IN /\ buffer' = token.rest
             /\ style' = IF token.type = "SGR"
                         THEN Process(style, token.signal, colors16, colors256)
                         ELSE style
             /\ out' = IF token.type \in {"OSC", "TEXT"}
                       THEN Append(out, Block(token, style))
                       ELSE out
             /\ last' = [type |-> token.type, before |-> buffer, signal |-> token.signal,
                         style |-> style, delivered |-> Len(out)]
             /\ iter' = 1 - iter
             /\ pc' = "write"
             /\ lastIndex' = Scanned(buffer, lastIndex)
             /\ refs' = IF token.type = "SGR"
                        THEN Process(refs, token.signal, Tag16, Tag256)
                        ELSE refs
  /\ UNCHANGED <<theme, call, written, calls, plan, other>>

\* flush(callback)
Flush ==
  /\ pc = "idle"
  /\ calls < MaxCalls
  /\ out' = IF buffer # <<>>
            THEN Append(out, Block([Token("TEXT", <<>>) EXCEPT !.value = buffer], style))
            ELSE out
  /\ style' = Reset(style)
  /\ buffer' = <<>>
  /\ call' = [op |-> "flush", text |-> <<>>, buffer |-> buffer, style |-> style,
              delivered |-> Len(out), prev |-> call.op]
  /\ last' = NoToken
  /\ written' = <<>>
  /\ calls' = calls + 1
  /\ refs' = Reset(refs)
  /\ UNCHANGED <<theme, pc, iter, plan, lastIndex, other>>

RECURSIVE WriteAll(_, _, _, _, _, _)
\* The whole loop of write from a given buffer, style and position of
\* OSC_ST_RE: the blocks it delivers and the state it ends in; returns is
\* FALSE when the loop reaches a token after which it can only read the same
\* token again.
WriteAll(buf, sty, blocks, c16, c256, index) ==
  IF buf = <<>>
  THEN [returns |-> TRUE, buffer |-> buf, style |-> sty, blocks |-> blocks,
        lastIndex |-> index]
  ELSE LET token == Read(buf, index)
       IN IF token.type \in {"EOS", "INCESC"}
          THEN [returns |-> FALSE, buffer |-> buf, style |-> sty, blocks |-> blocks,
                lastIndex |-> Scanned(buf, index)]
          ELSE WriteAll(token.rest,
                        IF token.type = "SGR"
                        THEN Process(sty, token.signal, c16, c256) ELSE sty,
                        IF token.type \in {"OSC", "TEXT"}
                        THEN Append(blocks, Block(token, sty)) ELSE blocks,
                        c16, c256, Scanned(buf, index))

\* ------------------------------------------------------------ inputs

\* "Hello" and " World"
Hello == <<72, 101, 108, 108, 111>>

World == <<32, 87, 111, 114, 108, 100>>

\* ESC [ params m
Sgr(params) == <<ESC, LBracket>> \o params \o <<CmdM>>

\* "\x1B[1;31mHello\x1B[0m World"
HelloWorld == Sgr(<<49, Semicolon, 51, 49>>) \o Hello \o Sgr(<<Zero>>) \o World

\* "https://example.com" and "link text"
ExampleUrl ==
  <<104, 116, 116, 112, 115, 58, 47, 47, 101, 120, 97, 109, 112, 108, 101, 46, 99, 111, 109>>

LinkText == <<108, 105, 110, 107, 32, 116, 101, 120, 116>>

\* ESC ] 8 ; ; url ST text ESC ] 8 ; ; ST
Hyperlink(url, text, st) ==
  <<ESC, RBracket, Eight, Semicolon, Semicolon>> \o url \o st \o text
    \o <<ESC, RBracket, Eight, Semicolon, Semicolon>> \o st

\* The texts a write call is given
Chunks ==
  { <<>>,
    <<97, 98>>,                                      \* "ab"
    HelloWorld,
    Sgr(<<53, 51>>),                                 \* ESC[53m  overline
    Sgr(<<Zero>>),                                   \* ESC[0m
    Sgr(<<52>>) \o <<97>>,                           \* ESC[4m a
    Sgr(<<51, 56, Semicolon, 53, Semicolon, 49, 57, 54>>) \o <<98>>,  \* ESC[38;5;196m b
    <<ESC, LBracket, 50, 74>>,                       \* ESC[2J
    Hyperlink(ExampleUrl, LinkText, <<BEL>>),
    Hyperlink(<<117>>, <<116>>, <<ESC, Backslash>>),
    Hyperlink(<<>>, <<59, 32>>, <<BEL>>),
    <<ESC, 99, 100>>,                                \* ESC c d
    <<ESC, LParen, 66>>,                             \* ESC ( B
    <<ESC>>,
    <<97, ESC, LBracket>>,                           \* a ESC [
    <<ESC, LBracket, 49, Semicolon>>,                \* ESC [ 1 ;
    <<ESC, RBracket, Eight, Semicolon>>,             \* ESC ] 8 ;
    <<97, ESC, LBracket, 63, 50, 53, 104, 98>>,      \* a ESC[?25h b
    <<ESC, RBracket, Zero, Semicolon, 116, BEL, 97>>,            \* ESC ] 0 ; t BEL a
    <<ESC, RBracket, 50, Semicolon, 116, ESC, Backslash, 97>> }  \* ESC ] 2 ; t ESC \ a

\* A theme that sets red and the palette entries 0 and 1
RedTheme ==
  [red |-> <<255, 1, 2>>, brightRed |-> <<300, 0, 256>>,
   colors256 |-> <<Null, <<200, 0, 0>>>>]

Themes == {EmptyTheme, RedTheme}

\* ------------------------------------------------------------ specifications

Init == \E t \in Themes : Construct(t) /\ plan = <<>>

WriteChunk == \E text \in Chunks : Write(text) /\ UNCHANGED plan

Next == WriteChunk \/ Turn \/ Flush

\* Sessions that are given any chunks and flushed at any time between calls
Spec == Init /\ [][Next]_vars

\* What a turn of the loop of write does to the position of the call: it ends
\* the call or makes one more turn.  In Spec the steps from a state with
\* pc = "write" are the Turn steps, and every one of them changes pc or iter.
Running == pc = "write" /\ pc' \in {"idle", "write"} /\ iter' \in {0, 1}

\* Spec with the one progress the engine guarantees: a write call that is in
\* its loop runs on, because write is synchronous code that nothing suspends
\* (weak fairness of Turn, stated on the position of the call)
FairSpec == Spec /\ WF_<<pc, iter>>(Running)

\* The longest of the short inputs that are split at every offset
MaxLen == 4

\* The characters of the short inputs: ESC [ ( 1 m a
Alphabet == {ESC, LBracket, LParen, 49, CmdM, 97}

RECURSIVE StringsUpTo(_)
\* Every string over Alphabet of length n or less
StringsUpTo(n) ==
  IF n = 0 THEN {<<>>}
  ELSE LET shorter == StringsUpTo(n - 1)
       IN shorter \cup {Append(s, c) : s \in {x \in shorter : Len(x) = n - 1}, c \in Alphabet}

\* The longer inputs that are split at every offset
Scenarios ==
  { HelloWorld,
    Hyperlink(ExampleUrl, LinkText, <<BEL>>),
    <<97>> \o Hyperlink(<<117>>, <<116>>, <<ESC, Backslash>>) \o <<98>>,
    <<97, 98, ESC, LBracket, 50, 74, 99, 100>>,              \* ab ESC[2J cd
    <<ESC, RBracket, Eight, Semicolon, 10, 97, 98>>,         \* ESC ] 8 ; LF ab
    <<ESC, RBracket, 48, Semicolon, 116, BEL, 97>>,          \* ESC ] 0 ; t BEL a
    <<97, ESC, 99, 100, ESC, 101, 102>>,                     \* a ESC cd ESC ef
    Sgr(<<52, 56, Semicolon, 50, Semicolon, 49, Semicolon, 50, Semicolon, 51>>)
      \o <<97, 98>> \o Sgr(<<>>) \o <<99>> }                 \* ESC[48;2;1;2;3m ab ESC[m c

Inputs == StringsUpTo(MaxLen) \cup Scenarios

\* A fresh session that is to be given s in two writes, cut at offset k
SplitInit ==
  \E s \in Inputs : \E k \in 0..Len(s) :
    /\ Construct(EmptyTheme)
    /\ plan = <<SubSeq(s, 1, k), SubSeq(s, k + 1, Len(s))>>

\* The next write of the plan
WritePlanned ==
  /\ plan # <<>>
  /\ Write(Head(plan))
  /\ plan' = Tail(plan)

SplitNext == WritePlanned \/ Turn

\* Fresh sessions that are given one input in two consecutive writes
SplitSpec == SplitInit /\ [][SplitNext]_vars

RECURSIVE Dec(_)
\* The decimal digits of the number n
Dec(n) == IF n < 10 THEN <<Zero + n>> ELSE Dec(n \div 10) \o <<Zero + (n % 10)>>

RECURSIVE Params(_)
\* The parameter string of the numbers nums: their digits, joined by ';'
Params(nums) ==
  IF nums = <<>> THEN <<>>
  ELSE IF Len(nums) = 1 THEN Dec(nums[1])
  ELSE Dec(nums[1]) \o <<Semicolon>> \o Params(Tail(nums))

\* The channel values of the truecolor parameters: in range, and above it
Channels == {0, 255, 256, 300}

\* The values of the parameters that are left over after an extended code
Leftovers == {0, 1, 4, 31}

\* The parameter strings with an extended-color code (fg = 38 or 48)
Extended(fg) ==
  {Params(<<fg, 2, 92, 157, 255, 1, 4>>), Params(<<fg, 5, 196, 1, 4>>),
   Params(<<fg>>), Params(<<fg, 5>>), Params(<<fg, 2>>)}
    \cup {Params(<<fg, 5, n>>) : n \in 0..255}
    \cup {Params(<<fg, 2, r, g, b>>) : r \in Channels, g \in Channels, b \in Channels}
    \cup {Params(<<fg, 2, a>>) : a \in Leftovers}
    \cup {Params(<<fg, 2, a, b>>) : a \in Leftovers, b \in Leftovers}

\* The parameter strings with an empty segment, and those they are compared
\* with: "", "1;", ";1", "1;;4", "0", "1;0", "0;1"
WithEmpty ==
  {<<>>, <<49, Semicolon>>, <<Semicolon, 49>>, <<49, Semicolon, Semicolon, 52>>,
   Params(<<0>>), Params(<<1, 0>>), Params(<<0, 1>>)}

\* Complete CSI sequences that are not SGR:
\* ESC[2J  ESC[?25h  ESC[?1m  ESC[>4;2m  ESC[1 q  ESC[H
NonSgr ==
  { <<ESC, LBracket, 50, 74>>,
    <<ESC, LBracket, 63, 50, 53, 104>>,
    <<ESC, LBracket, 63, 49, CmdM>>,
    <<ESC, LBracket, 62, 52, Semicolon, 50, CmdM>>,
    <<ESC, LBracket, 49, 32, 113>>,
    <<ESC, LBracket, 72>> }

\* The CSI sequences a session is given
\* The parameter strings of one code: "0" .. "109"
Singles == {Params(<<code>>) : code \in 0..109}

CsiSequences ==
  NonSgr \cup {Sgr(p) : p \in Extended(38) \cup Extended(48) \cup WithEmpty \cup Singles}

\* A parameter string that sets all nine flags and both colours; every code
\* stands twice, so that it is applied wherever the cursor resumes
AllSet ==
  Params(<<1, 1, 2, 2, 3, 3, 4, 4, 5, 5, 7, 7, 8, 8, 9, 9, 53, 53, 32, 32, 44, 44>>)

\* The parameter strings that set the style a sequence is read under:
\* "", "1", "53", "31", "48;5;1"
Priors ==
  {<<>>, Params(<<1>>), Params(<<53>>), Params(<<31>>), Params(<<48, 5, 1>>), AllSet}

\* A fresh session that is to be given an SGR sequence that sets a style, then
\* one CSI sequence followed by "x", then the reset ESC[0m followed by "y"
CsiInit ==
  \E t \in Themes : \E prior \in Priors : \E seq \in CsiSequences :
    /\ Construct(t)
    /\ plan = <<Sgr(prior), seq \o <<120>>, Sgr(<<Zero>>) \o <<121>>>>

\* Sessions that are given one CSI sequence between two SGR sequences
CsiSpec == CsiInit /\ [][SplitNext]_vars

\* The theme names of the entries of colors16, in the constructor's order
Names ==
  <<"black", "red", "green", "yellow", "blue", "magenta", "cyan", "white",
    "brightBlack", "brightRed", "brightGreen", "brightYellow", "brightBlue",
    "brightMagenta", "brightCyan", "brightWhite">>

\* The theme that gives the palette of theme t with the array object ref
\* holding the triple rgb (channels in 0..255): an array of #colors16 is set
\* through its name, so that an entry of #colors256 that is the same array
\* follows it, and an array of #colors256 alone through its index.
WithEntry(t, ref, rgb) ==
  IF ref[1] = 16
  THEN [name \in DOMAIN t \cup {Names[ref[2] + 1]} |->
          IF name = Names[ref[2] + 1] THEN rgb ELSE t[name]]
  ELSE LET themeColors256 == Entry(t, "colors256")
           length == IF Len(themeColors256) > ref[2] + 1
                     THEN Len(themeColors256) ELSE ref[2] + 1
       IN [name \in DOMAIN t \cup {"colors256"} |->
             IF name = "colors256"
             THEN [index \in 1..length |->
                     IF index = ref[2] + 1 THEN rgb
                     ELSE IF index <= Len(themeColors256) THEN themeColors256[index]
                     ELSE Null]
             ELSE t[name]]

\* The callback assigns block.style[field][channel] = value in the block it
\* has just been given.  #block copies #style with `{ ...this.#style }`, which
\* copies the reference of each colour, so the array written to is the one
\* #style[field] refers to: an array of the palette when an indexed code set
\* the colour, the array `[r, g, b]` of the truecolor code otherwise.
Mutate(field, channel, value) ==
  LET block == out[Len(out)]
      ref == refs[field]
      rgb == [block.style[field] EXCEPT ![channel] = value]
  IN /\ pc = "write"
     /\ last.type \in {"TEXT", "OSC"}
     /\ Len(out) = last.delivered + 1
     /\ style[field] # Null
     /\ block.style[field] = style[field]
     /\ rgb # style[field]
     /\ out' = [out EXCEPT ![Len(out)].style =
                  [name \in DOMAIN style |->
                     IF name = field
                        \/ (name \in {"color", "background"} /\ refs[name] = ref
                            /\ Len(ref) = 2)
                     THEN rgb ELSE @[name]]]
     /\ style' = [name \in DOMAIN style |->
                    IF name = field
                       \/ (name \in {"color", "background"} /\ refs[name] = ref
                           /\ Len(ref) = 2)
                    THEN rgb ELSE style[name]]
     /\ theme' = IF Len(ref) = 2 THEN WithEntry(theme, ref, rgb) ELSE theme
     /\ refs' = IF Len(ref) = 2 THEN refs ELSE [refs EXCEPT ![field] = rgb]
     /\ UNCHANGED <<buffer, pc, iter, call, last, written, calls, plan, lastIndex, other>>

MutateBlock ==
  \E field \in {"color", "background"} : \E channel \in {1, 3} : Mutate(field, channel, 7)

\* The parameters of the sequences that set a colour, and of the reset
Colorings ==
  { Params(<<31>>), Params(<<38, 5, 1>>), Params(<<38, 5, 196>>), Params(<<48, 5, 196>>),
    Params(<<38, 2, 1, 2, 3>>), Params(<<91, 0, 101>>), Params(<<0>>) }

AliasInit ==
  \E t \in Themes : \E first \in Colorings : \E second \in Colorings :
    /\ Construct(t)
    /\ plan = <<Sgr(first) \o <<120>>, Sgr(second) \o <<121>>>>

AliasNext == WritePlanned \/ Turn \/ Flush \/ MutateBlock

\* Sessions whose callback writes into the colours of the blocks it is given
AliasSpec == AliasInit /\ [][AliasNext]_vars

\* write(text, callback) of the second session, from the call to its return:
\* a call that returns leaves the buffer of its session empty, so the buffer
\* of the loop is the text.  The loop uses OSC_ST_RE as the first session left
\* it, and leaves it to the first session as it ends.
OtherWrite(text) ==
  LET run == WriteAll(text, other.style, <<>>, Colors16(EmptyTheme), Colors256(EmptyTheme),
                      lastIndex)
      solo == WriteAll(text, other.alone.style, <<>>, Colors16(EmptyTheme),
                       Colors256(EmptyTheme), other.alone.lastIndex)
  IN /\ pc = "idle"
     /\ calls < MaxCalls
     /\ run.returns
     /\ other' = [style |-> run.style, out |-> other.out \o run.blocks, found |-> lastIndex,
                  alone |-> [style |-> solo.style, out |-> other.alone.out \o solo.blocks,
                             lastIndex |-> solo.lastIndex]]
     /\ lastIndex' = run.lastIndex
     /\ calls' = calls + 1
     /\ UNCHANGED <<theme, buffer, style, pc, iter, out, call, last, written, plan, refs>>

\* flush(callback) of the second session, whose buffer is empty
OtherFlush ==
  /\ pc = "idle"
  /\ calls < MaxCalls
  /\ other' = [other EXCEPT !.style = Reset(@), !.found = lastIndex,
                            !.alone.style = Reset(@)]
  /\ calls' = calls + 1
  /\ UNCHANGED <<theme, buffer, style, pc, iter, out, call, last, written, plan, refs,
                 lastIndex>>

\* Texts with hyperlinks: whole (one with a line feed after it), cut short,
\* and made illegal by a line feed before the first and before the second
\* string terminator
PairChunks ==
  { Hyperlink(<<117>>, <<116>>, <<BEL>>) \o <<10>>,
    Hyperlink(<<117>>, <<116>>, <<ESC, Backslash>>) \o <<97>>,
    <<ESC, RBracket, Eight, Semicolon, Semicolon, 117, 10, BEL, 116>>,
    <<ESC, RBracket, Eight, Semicolon, Semicolon, 117, BEL, 116, 10, BEL>>,
    <<ESC, RBracket, Eight, Semicolon, Semicolon, 117, BEL, 116>>,
    Sgr(Params(<<31>>)) \o <<97>> }

PairWrite == \E text \in PairChunks : Write(text) /\ UNCHANGED plan

PairOtherWrite == \E text \in PairChunks : OtherWrite(text)

PairNext == PairWrite \/ Turn \/ Flush \/ PairOtherWrite \/ OtherFlush

\* Two sessions of one module, whose calls follow one another in any order
PairSpec == Init /\ [][PairNext]_vars

\* ------------------------------------------------------------ properties

\* The blocks the current (or last) call has delivered
Delivered == SubSeq(out, call.delivered + 1, Len(out))

\* s holds no escape marker
NoEsc(s) == \A i \in 1..Len(s) : s[i] # ESC

\* c is one of the introducers #read looks for after ESC
IsIntroducer(c) == c \in {LBracket, RBracket, LParen}

\* A block of plain text
TextBlock(value, st) == [value |-> value, style |-> st, url |-> <<>>]

\* C1: once the tokenizer answers "incomplete" or "end-of-buffer", the read
\* loop stops: the turn of the loop that reads such a token ends the write
\* call, with the pending characters kept in the buffer.
C1_LoopStopsOnIncomplete ==
  [][(pc = "write" /\ buffer # <<>> /\ Read(buffer, lastIndex).type \in {"INCESC", "EOS"})
       => (pc' = "idle" /\ buffer' = buffer)]_vars

\* C3: on a fresh session, write("\x1B[1;31mHello\x1B[0m World") delivers
\* exactly two blocks: "Hello" with bold and the base-palette red and every
\* other field default, then " World" with every field default.
C3_HelloWorldBlocks ==
  (pc = "idle" /\ calls = 1 /\ call.op = "write" /\ call.text = HelloWorld)
    => out = << TextBlock(Hello, [DefaultStyle EXCEPT !.bold = TRUE, !.color = colors16[2]]),
                TextBlock(World, DefaultStyle) >>

\* C4: after an SGR sequence whose only code is 0 has been processed, all nine
\* flags are false and both colours are unset, whatever the style was before.
C4_CodeZeroResetsAll ==
  (last.type = "SGR" /\ last.signal = <<Zero>>) => style = DefaultStyle

\* C5: after flush returns, the buffer is empty and the style is all-defaults,
\* as in a freshly constructed session.
C5_FlushLeavesFreshState ==
  call.op = "flush" => (buffer = <<>> /\ style = DefaultStyle)

\* C6 as stated: for every input with no escape marker, a write on a session
\* with an empty buffer delivers exactly one block, whose value is the input,
\* whose style is the current style, and which has no url.
C6_OneBlockForAnyPlainInput ==
  (pc = "idle" /\ call.op = "write" /\ call.buffer = <<>> /\ NoEsc(call.text))
    => Delivered = <<TextBlock(call.text, call.style)>>

\* C6 amended: for every non-empty input with no escape marker, a write on a
\* session with an empty buffer delivers, in the first turn of its loop,
\* exactly one block, whose value is the input, whose style is the current
\* style and which has no url, and leaves the buffer empty, so that the call
\* returns; the style is left as it was.
C6_OneBlockForPlainText ==
  (call.op = "write" /\ call.buffer = <<>> /\ NoEsc(call.text) /\ call.text # <<>>
     /\ (pc = "idle" \/ last.type # "none"))
    => /\ Delivered = <<TextBlock(call.text, call.style)>>
       /\ buffer = <<>>
       /\ style = call.style

\* C6 witness: a plain text has been written under a style that is not the
\* default one, and the call has returned
C6_Witness ==
  /\ pc = "idle" /\ call.op = "write" /\ call.buffer = <<>>
  /\ NoEsc(call.text) /\ call.text # <<>>
  /\ call.style.overline

\* The link targets, link texts and string terminators of the hyperlink chunks
Urls == {<<>>, <<117>>, ExampleUrl}

Texts == {<<116>>, <<59, 32>>, LinkText}

Terminators == {<<BEL>>, <<ESC, Backslash>>}

\* C7: writing ESC ] 8 ; ; url ST text ESC ] 8 ; ; ST (url of printable
\* non-space characters, text non-empty and printable) on an empty buffer
\* delivers exactly one block, with value = text, url = url and the current
\* style, and consumes the whole sequence; with url "https://example.com" and
\* text "link text" the block is ("link text", "https://example.com").
C7_HyperlinkRoundTrip ==
  \A url \in Urls, text \in Texts, st \in Terminators :
    (call.op = "write" /\ call.buffer = <<>> /\ call.text = Hyperlink(url, text, st)
       /\ (pc = "idle" \/ last.type # "none"))
      => /\ Delivered = <<[value |-> text, style |-> call.style, url |-> <<url>>]>>
         /\ buffer = <<>>
         /\ style = call.style

\* C7 witness: the example hyperlink has been written under a style that is
\* not the default one and has been delivered as one block
C7_Witness ==
  /\ pc = "idle" /\ call.op = "write" /\ call.buffer = <<>>
  /\ call.text = Hyperlink(ExampleUrl, LinkText, <<BEL>>)
  /\ call.style.underline
  /\ Len(Delivered) = 1
  /\ Delivered[1].url = <<ExampleUrl>>

\* C8: when #read classifies a buffer that starts with ESC followed by a
\* character that is no introducer, it drops the marker alone: the buffer
\* becomes what followed the marker, no block is delivered and the style is
\* kept; and a write of ESC followed by plain text (no introducer first)
\* delivers that text whole, as one block.
C8_ResyncDropsOnlyTheMarker ==
  /\ (last.type # "none" /\ Len(last.before) >= 3 /\ last.before[1] = ESC
        /\ ~IsIntroducer(last.before[2]))
       => /\ last.type = "ESC"
          /\ buffer = Tail(last.before)
          /\ style = last.style
          /\ Len(out) = last.delivered
  /\ (pc = "idle" /\ call.op = "write" /\ call.buffer = <<>> /\ Len(call.text) >= 3
        /\ call.text[1] = ESC /\ ~IsIntroducer(call.text[2]) /\ NoEsc(Tail(call.text)))
       => Delivered = <<TextBlock(Tail(call.text), call.style)>>

\* C8 witness: ESC c d has been written, the marker dropped and "cd" delivered
C8_Witness ==
  /\ pc = "idle" /\ call.op = "write" /\ call.text = <<ESC, 99, 100>>
  /\ Len(Delivered) = 1
  /\ Delivered[1].value = <<99, 100>>

\* C9: one step of the tokenizer on a non-empty buffer either removes at least
\* one character from the front of the buffer or answers "incomplete"; it
\* answers "end-of-buffer" only when the buffer is empty.
C9_TokenizerProgress ==
  last.type # "none"
    => /\ (last.type = "INCESC" \/ Len(buffer) < Len(last.before))
       /\ (last.type = "EOS" => last.before = <<>>)

\* The 16 base colours of an empty theme
BaseDefaults ==
  << <<0, 0, 0>>, <<128, 0, 0>>, <<0, 128, 0>>, <<128, 128, 0>>,
     <<0, 0, 128>>, <<128, 0, 128>>, <<0, 128, 128>>, <<192, 192, 192>>,
     <<128, 128, 128>>, <<255, 0, 0>>, <<0, 255, 0>>, <<255, 255, 0>>,
     <<0, 0, 255>>, <<255, 0, 255>>, <<0, 255, 255>>, <<255, 255, 255>> >>

\* The seed of one channel of the 6x6x6 cube
Seed(i) == CASE i = 0 -> 0 [] i = 1 -> 95 [] i = 2 -> 135
             [] i = 3 -> 175 [] i = 4 -> 215 [] i = 5 -> 255

\* C10: with an empty theme the palette has exactly 256 entries: entries 0..15
\* are the 16 base colours, entry 16 + 36r + 6g + b is (seed r, seed g, seed b)
\* for r, g, b in 0..5, and entry 232 + i is the gray 8 + 10i for i in 0..23.
C10_PaletteFormula ==
  LET table == colors256
      base == colors16
  IN theme = EmptyTheme
       => /\ Len(table) = 256
          /\ \A k \in 0..15 : table[k + 1] = BaseDefaults[k + 1]
                              /\ table[k + 1] = base[k + 1]
          /\ \A r \in 0..5, g \in 0..5, b \in 0..5 :
               table[16 + 36 * r + 6 * g + b + 1] = <<Seed(r), Seed(g), Seed(b)>>
          /\ \A i \in 0..23 :
               table[232 + i + 1] = <<8 + 10 * i, 8 + 10 * i, 8 + 10 * i>>

\* C10 witness: a session with an empty theme has looked entry 196 up
C10_Witness ==
  /\ theme = EmptyTheme
  /\ last.type = "SGR"
  /\ last.signal = <<51, 56, Semicolon, 53, Semicolon, 49, 57, 54>>
  /\ style.color = colors256[196 + 1]
  /\ style.color = <<255, 0, 0>>

RECURSIVE Flatten(_)
\* The concatenation of a sequence of texts
Flatten(texts) == IF texts = <<>> THEN <<>> ELSE Head(texts) \o Flatten(Tail(texts))

\* The whole input of a planned session: what was written and what is to be
WholeInput == written \o Flatten(plan)

\* What one write of the whole input does on a fresh session
SingleWrite == WriteAll(WholeInput, DefaultStyle, <<>>, colors16, colors256, 0)

\* Both writes of the plan have returned
SplitDone == plan = <<>> /\ pc = "idle"

RECURSIVE Merge(_)
\* blocks with every run of adjacent url-less blocks of one style made one block
Merge(blocks) ==
  IF Len(blocks) < 2 THEN blocks
  ELSE LET a == blocks[1]
           b == blocks[2]
       IN IF a.url = <<>> /\ b.url = <<>> /\ a.style = b.style
          THEN Merge(<<[a EXCEPT !.value = a.value \o b.value]>> \o SubSeq(blocks, 3, Len(blocks)))
          ELSE <<a>> \o Merge(Tail(blocks))

\* s is a prefix of t
IsPrefix(s, t) == Len(s) <= Len(t) /\ SubSeq(t, 1, Len(s)) = s

\* The blocks a are a beginning of the blocks b: all of a but its last block
\* are blocks of b, and the last is the beginning of the block of b at its place
IsBeginning(a, b) ==
  /\ Len(a) <= Len(b)
  /\ \A i \in 1..(Len(a) - 1) : a[i] = b[i]
  /\ a # <<>> =>
       /\ a[Len(a)].style = b[Len(a)].style
       /\ a[Len(a)].url = b[Len(a)].url
       /\ IsPrefix(a[Len(a)].value, b[Len(a)].value)

Values(blocks) == [i \in 1..Len(blocks) |-> blocks[i].value]

\* The least member of a non-empty set of numbers
Least(S) == CHOOSE i \in S : \A j \in S : i <= j

RECURSIVE Strip(_)
\* s with every control sequence the tokenizer recognizes removed: a CSI
\* sequence runs from ESC [ to its command byte, a hyperlink marker from
\* ESC ] 8 ; to its string terminator, and an ESC that starts neither is
\* removed alone.
Strip(s) ==
  IF s = <<>> THEN <<>>
  ELSE IF s[1] # ESC THEN <<s[1]>> \o Strip(Tail(s))
  ELSE IF Len(s) >= 2 /\ s[2] = LBracket
    THEN LET ends == {i \in 3..Len(s) : IsCommand(s[i])}
         IN IF ends = {} THEN <<>> ELSE Strip(Slice(s, Least(ends)))
  ELSE IF HasAt(s, 1, <<ESC, RBracket, Eight, Semicolon>>)
    THEN LET ends == {i \in 5..Len(s) : StLen(s, i) > 0}
         IN IF ends = {} THEN <<>>
            ELSE Strip(Slice(s, Least(ends) - 1 + StLen(s, Least(ends))))
  ELSE Strip(Tail(s))

C12_FlushEmitsPending ==
  /\ [](last.type = "INCESC" => <>(pc = "idle" /\ buffer = last.before))
  /\ []((call.op = "flush" /\ call.buffer # <<>>)
          => Delivered = <<TextBlock(call.buffer, call.style)>>)
  /\ [](call.op = "flush" => Len(Delivered) <= 1)

\* Every write that returns leaves the buffer empty, so that no flush ever
\* finds characters in it
FlushFindsEmptyBuffer ==
  /\ pc = "idle" => buffer = <<>>
  /\ call.op = "flush" => call.buffer = <<>>

\* C13: a flush on an empty buffer invokes the callback zero times and leaves
\* the style at all-defaults; a flush that follows a flush emits nothing and
\* leaves buffer and style exactly as the first flush left them.
C13_FlushOnEmptyBuffer ==
  /\ (call.op = "flush" /\ call.buffer = <<>>)
       => (Len(out) = call.delivered /\ buffer = <<>> /\ style = DefaultStyle)
  /\ (call.op = "flush" /\ call.prev = "flush")
       => (Len(out) = call.delivered /\ buffer = call.buffer /\ style = call.style)

\* What of C13 the code does: a flush on an empty buffer delivers nothing,
\* and a second flush changes nothing
DoubleFlushChangesNothing ==
  /\ (call.op = "flush" /\ call.buffer = <<>>)
       => (Len(out) = call.delivered /\ buffer = <<>> /\ style = Reset(call.style))
  /\ (call.op = "flush" /\ call.prev = "flush")
       => (Len(out) = call.delivered /\ buffer = call.buffer /\ style = call.style)

\* Complete OSC sequences that are not hyperlinks, each followed by "a":
\* ESC ] 0 ; t BEL a  and  ESC ] 2 ; t ESC \ a
OtherOscs ==
  { <<ESC, RBracket, Zero, Semicolon, 116, BEL, 97>>,
    <<ESC, RBracket, 50, Semicolon, 116, ESC, Backslash, 97>> }

\* s without its escape markers
WithoutEsc(s) == SelectSeq(s, LAMBDA ch : ch # ESC)

CommandAt(s) == Least({i \in 3..Len(s) : IsCommand(s[i])})

\* C15: a complete, legal CSI sequence that is not SGR (a private-mode prefix,
\* or a command byte other than "m") is removed from the buffer in full, up to
\* and with its command byte, delivers no block and leaves every style field
\* as it was; the text that follows it is delivered under that same style.
C15_UnknownCsiSkipped ==
  \A seq \in NonSgr :
    /\ (last.type # "none" /\ IsPrefix(seq, last.before))
         => /\ last.type = "UNKNOWN"
            /\ CommandAt(last.before) = Len(seq)
            /\ buffer = Slice(last.before, Len(seq))
            /\ style = last.style
            /\ Len(out) = last.delivered
    /\ (pc = "idle" /\ call.op = "write" /\ call.buffer = <<>> /\ call.text = seq \o <<120>>)
         => /\ Delivered = <<TextBlock(<<120>>, call.style)>>
            /\ style = call.style
            /\ buffer = <<>>

\* C15 witness: ESC[?1m x has been written under a bold style; the sequence
\* with the private-mode prefix was skipped and "x" delivered bold
C15_Witness ==
  /\ pc = "idle" /\ call.op = "write"
  /\ call.text = <<ESC, LBracket, 63, 49, CmdM, 120>>
  /\ call.style.bold
  /\ Len(Delivered) = 1
  /\ Delivered[1].style.bold

\* The style st with the foreground (fg = 38) or the background (fg = 48) set
Paint(st, fg, color) ==
  IF fg = 38 THEN [st EXCEPT !.color = color] ELSE [st EXCEPT !.background = color]

\* C16: the codes that follow an extended-color group in the same SGR
\* sequence are applied: after "38;2;92;157;255;1;4" the foreground is
\* (92,157,255) and bold and underline are set; after "38;5;196;1;4" the
\* foreground is palette entry 196 and bold and underline are set; likewise
\* for the background with 48; nothing else of the style changes.
C16_CodesAfterExtendedColor ==
  \A fg \in {38, 48} :
    /\ (last.type = "SGR" /\ last.signal = Params(<<fg, 2, 92, 157, 255, 1, 4>>))
         => style = [Paint(last.style, fg, <<92, 157, 255>>)
                       EXCEPT !.bold = TRUE, !.underline = TRUE]
    /\ (last.type = "SGR" /\ last.signal = Params(<<fg, 5, 196, 1, 4>>))
         => style = [Paint(last.style, fg, colors256[196 + 1])
                       EXCEPT !.bold = TRUE, !.underline = TRUE]

\* The parameter strings "38;5;n" and "48;5;n", by n
FgParams == [n \in 0..255 |-> Params(<<38, 5, n>>)]

BgParams == [n \in 0..255 |-> Params(<<48, 5, n>>)]

\* C17: for every n in 0..255 the SGR sequence "48;5;n" sets the background
\* to entry n of the session's 256-colour palette and "38;5;n" sets the
\* foreground to entry n, leaving every other style field as it was, and the
\* text that follows is delivered with that colour; after a following SGR "0"
\* the next text block carries no background and no foreground.
C17_PaletteColors ==
  /\ \A n \in 0..255 :
       /\ (last.type = "SGR" /\ last.signal = BgParams[n])
            => style = [last.style EXCEPT !.background = colors256[n + 1]]
       /\ (last.type = "SGR" /\ last.signal = FgParams[n])
            => style = [last.style EXCEPT !.color = colors256[n + 1]]
       /\ (pc = "idle" /\ call.op = "write" /\ call.text = Sgr(BgParams[n]) \o <<120>>)
            => Delivered = <<TextBlock(<<120>>,
                               [call.style EXCEPT !.background = colors256[n + 1]])>>
       /\ (pc = "idle" /\ call.op = "write" /\ call.text = Sgr(FgParams[n]) \o <<120>>)
            => Delivered = <<TextBlock(<<120>>,
                               [call.style EXCEPT !.color = colors256[n + 1]])>>
  /\ (pc = "idle" /\ call.op = "write" /\ call.text = Sgr(<<Zero>>) \o <<121>>)
       => /\ Len(Delivered) = 1
          /\ Delivered[1].value = <<121>>
          /\ Delivered[1].style.background = Null
          /\ Delivered[1].style.color = Null

\* C17 witness: after ESC[48;5;255m x was delivered on the last palette
\* entry, written under an overlined style, ESC[0m y has been delivered
C17_Witness ==
  /\ pc = "idle" /\ plan = <<>> /\ Len(out) = 2
  /\ out[1].value = <<120>>
  /\ out[1].style.background = <<238, 238, 238>>
  /\ out[1].style.overline
  /\ out[2].value = <<121>>
  /\ out[2].style.background = Null

\* v clamped to 0..255
Clamp(v) == IF v < 0 THEN 0 ELSE IF v > 255 THEN 255 ELSE v

\* C18: the truecolor channels are clamped: after "38;2;R;G;B" the
\* foreground is (min(max(R,0),255), min(max(G,0),255), min(max(B,0),255)),
\* likewise the background after "48;2;R;G;B", so that 256 and 300 are stored
\* as 255; and every channel of a theme override colour is clamped the same
\* way.
C18_ChannelsClamped ==
  /\ \A fg \in {38, 48} : \A r \in Channels, g \in Channels, b \in Channels :
       (last.type = "SGR" /\ last.signal = Params(<<fg, 2, r, g, b>>))
         => style = Paint(last.style, fg, <<Clamp(r), Clamp(g), Clamp(b)>>)
  /\ "brightRed" \in DOMAIN theme
       => colors16[10] = <<Clamp(theme.brightRed[1]), Clamp(theme.brightRed[2]),
                           Clamp(theme.brightRed[3])>>

\* What the code stores instead: the low eight bits of every channel
ChannelsMasked ==
  /\ \A fg \in {38, 48} : \A r \in Channels, g \in Channels, b \in Channels :
       (last.type = "SGR" /\ last.signal = Params(<<fg, 2, r, g, b>>))
         => style = Paint(last.style, fg, <<r % 256, g % 256, b % 256>>)
  /\ "brightRed" \in DOMAIN theme
       => colors16[10] = <<theme.brightRed[1] % 256, theme.brightRed[2] % 256,
                           theme.brightRed[3] % 256>>

\* C19: an empty parameter segment stands for code 0: the SGR sequence with
\* the empty parameter string (ESC [ m) resets the style as "0" does, "1;"
\* leaves the style that "1;0" leaves, and ";1" the style that "0;1" leaves.
C19_EmptySegmentIsZero ==
  /\ (last.type = "SGR" /\ last.signal = <<>>)
       => style = Process(last.style, Params(<<0>>), colors16, colors256)
  /\ (last.type = "SGR" /\ last.signal = <<49, Semicolon>>)
       => style = Process(last.style, Params(<<1, 0>>), colors16, colors256)
  /\ (last.type = "SGR" /\ last.signal = <<Semicolon, 49>>)
       => style = Process(last.style, Params(<<0, 1>>), colors16, colors256)

\* What the code does with an empty parameter string: nothing
EmptyParamsChangeNothing ==
  (last.type = "SGR" /\ last.signal = <<>>) => style = last.style

\* The parameter strings of an extended-color code whose following
\* parameters are missing: "fg", "fg;5", "fg;2", "fg;2;a", "fg;2;a;b"
Truncated(fg) ==
  {Params(<<fg>>), Params(<<fg, 5>>), Params(<<fg, 2>>)}
    \cup {Params(<<fg, 2, a>>) : a \in Leftovers}
    \cup {Params(<<fg, 2, a, b>>) : a \in Leftovers, b \in Leftovers}

\* C20: an extended-color code whose required following parameters are
\* absent is a no-op: after "38", "38;5", "38;2", "38;2;a", "38;2;a;b" (and
\* the 48 forms), for all a and b, every style field is what it was, and no
\* leftover parameter is taken for a style code of its own.
C20_TruncatedExtendedIsNoOp ==
  (last.type = "SGR" /\ last.signal \in Truncated(38) \cup Truncated(48))
    => style = last.style

\* What of C20 the code does: the forms with fewer than two parameters after
\* the mode change nothing
ShortExtendedIsNoOp ==
  \A fg \in {38, 48} :
    (last.type = "SGR"
       /\ last.signal \in {Params(<<fg>>), Params(<<fg, 5>>), Params(<<fg, 2>>)}
                            \cup {Params(<<fg, 2, a>>) : a \in Leftovers})
      => style = last.style

\* The per-index override of palette entry k (0-based) of the theme, Null
\* when the theme has none
Override(k) ==
  LET themeColors256 == Entry(theme, "colors256")
  IN IF k + 1 <= Len(themeColors256) THEN themeColors256[k + 1] ELSE Null

\* C21 as stated: for every theme, entries 0..15 of the 256-colour table are
\* the entries of the 16-entry base table, so that for every k in 0..7 code
\* 30+k gives the foreground that "38;5;k" gives, and 90+k the one that
\* "38;5;(8+k)" gives.
C21_First16AreBase ==
  /\ \A k \in 0..15 : colors256[k + 1] = colors16[k + 1]
  /\ \A k \in 0..7 :
       /\ (last.type = "SGR" /\ last.signal = Params(<<30 + k>>))
            => style.color = colors256[k + 1]
       /\ (last.type = "SGR" /\ last.signal = Params(<<90 + k>>))
            => style.color = colors256[8 + k + 1]

\* C21 amended: entry k of the first 16 entries of the 256-colour table is
\* the base entry k unless the theme overrides index k, and is the override
\* (each channel masked to eight bits) when it does; code 30+k gives base
\* entry k and 90+k base entry 8+k, "38;5;k" gives entry k of the 256-colour
\* table, so the two agree exactly when the theme does not override index k
\* with another colour.
C21_First16AreBaseUnlessOverridden ==
  /\ \A k \in 0..15 :
       /\ Override(k) = Null => colors256[k + 1] = colors16[k + 1]
       /\ Override(k) # Null
            => colors256[k + 1] = <<Override(k)[1] % 256, Override(k)[2] % 256,
                                    Override(k)[3] % 256>>
  /\ \A k \in 0..7 :
       /\ (last.type = "SGR" /\ last.signal = Params(<<30 + k>>))
            => style = [last.style EXCEPT !.color = colors16[k + 1]]
       /\ (last.type = "SGR" /\ last.signal = Params(<<90 + k>>))
            => style = [last.style EXCEPT !.color = colors16[8 + k + 1]]
  /\ \A k \in 0..15 :
       (last.type = "SGR" /\ last.signal = Params(<<38, 5, k>>))
         => style = [last.style EXCEPT !.color = colors256[k + 1]]

\* C21 witness: under the theme that names red (255,1,2) and overrides index
\* 1 with (200,0,0), code 31 has set the foreground to the named red
C21_Witness ==
  /\ Override(1) = <<200, 0, 0>>
  /\ colors256[2] = <<200, 0, 0>>
  /\ last.type = "SGR" /\ last.signal = Params(<<31>>)
  /\ style.color = <<255, 1, 2>>

\* The parameter string of every single code, by the code
Single == [code \in 0..109 |-> Params(<<code>>)]

\* C22: for k in 0..7, code 30+k sets the foreground to base entry k, 40+k
\* the background to base entry k, 90+k the foreground to base entry 8+k and
\* 100+k the background to base entry 8+k; 39 unsets the foreground and 49
\* the background; each of these codes changes that one colour field only.
C22_StandardColorCodes ==
  /\ \A k \in 0..7 :
       /\ (last.type = "SGR" /\ last.signal = Single[30 + k])
            => style = [last.style EXCEPT !.color = Colors16(theme)[k + 1]]
       /\ (last.type = "SGR" /\ last.signal = Single[40 + k])
            => style = [last.style EXCEPT !.background = Colors16(theme)[k + 1]]
       /\ (last.type = "SGR" /\ last.signal = Single[90 + k])
            => style = [last.style EXCEPT !.color = Colors16(theme)[8 + k + 1]]
       /\ (last.type = "SGR" /\ last.signal = Single[100 + k])
            => style = [last.style EXCEPT !.background = Colors16(theme)[8 + k + 1]]
  /\ (last.type = "SGR" /\ last.signal = Single[39])
       => style = [last.style EXCEPT !.color = Null]
  /\ (last.type = "SGR" /\ last.signal = Single[49])
       => style = [last.style EXCEPT !.background = Null]

\* C22 witness: code 97 has set the foreground to bright white on a style
\* that had all flags and both colours set, and the background is still blue
C22_Witness ==
  /\ last.type = "SGR" /\ last.signal = Single[97]
  /\ last.style.color = <<0, 128, 0>>
  /\ last.style.bold /\ last.style.overline
  /\ style.color = <<255, 255, 255>>
  /\ style.background = <<0, 0, 128>>

\* The flag each code sets, and the flag each code clears
Sets ==
  [code \in {1, 2, 3, 4, 5, 7, 8, 9, 53} |->
     CASE code = 1 -> "bold" [] code = 2 -> "dim" [] code = 3 -> "italic"
       [] code = 4 -> "underline" [] code = 5 -> "blink" [] code = 7 -> "inverse"
       [] code = 8 -> "hidden" [] code = 9 -> "strikethrough" [] code = 53 -> "overline"]

Clears ==
  [code \in {21, 23, 24, 25, 27, 28, 29, 55} |->
     CASE code = 21 -> "bold" [] code = 23 -> "italic" [] code = 24 -> "underline"
       [] code = 25 -> "blink" [] code = 27 -> "inverse" [] code = 28 -> "hidden"
       [] code = 29 -> "strikethrough" [] code = 55 -> "overline"]

\* The codes of the table: the reset, the flags, the colours
Recognized ==
  {0, 22, 38, 39, 48, 49} \cup DOMAIN Sets \cup DOMAIN Clears
    \cup (30..37) \cup (40..47) \cup (90..97) \cup (100..107)

\* C23: each of the codes 1,2,3,4,5,7,8,9,53 sets its own flag and each of
\* 21,23,24,25,27,28,29,55 clears its own flag, 22 clears bold and dim, and
\* every other field is left as it was; a code outside the table (6, 10, 26,
\* 50, 98, 108, ...) leaves all eleven style fields as they were.
C23_FlagCodes ==
  /\ \A code \in DOMAIN Sets :
       (last.type = "SGR" /\ last.signal = Single[code])
         => style = [last.style EXCEPT ![Sets[code]] = TRUE]
  /\ \A code \in DOMAIN Clears :
       (last.type = "SGR" /\ last.signal = Single[code])
         => style = [last.style EXCEPT ![Clears[code]] = FALSE]
  /\ (last.type = "SGR" /\ last.signal = Single[22])
       => style = [last.style EXCEPT !.bold = FALSE, !.dim = FALSE]
  /\ \A code \in (0..109) \ Recognized :
       (last.type = "SGR" /\ last.signal = Single[code]) => style = last.style

\* C23 witness: code 22 has cleared bold and dim of a style that had all
\* flags set, and italic is still set
C23_Witness ==
  /\ last.type = "SGR" /\ last.signal = Single[22]
  /\ last.style.bold /\ last.style.dim /\ last.style.italic
  /\ ~style.bold /\ ~style.dim /\ style.italic /\ style.overline

\* The number of string terminators in s
Terminated(s) == Cardinality({i \in 1..Len(s) : StLen(s, i) > 0})

\* The buffers the tokenizer has to wait on: ESC with fewer than three
\* characters; ESC [ with parameter characters only; ESC ] with fewer than
\* four characters; ESC ] 8 ; with fewer than two string terminators and no
\* character that invalidates the scan
MustWait(s) ==
  /\ s # <<>>
  /\ s[1] = ESC
  /\ \/ Len(s) < 3
     \/ s[2] = LBracket /\ \A i \in 3..Len(s) : IsParam(s[i])
     \/ s[2] = RBracket /\ Len(s) < 4
     \/ /\ HasAt(s, 1, <<ESC, RBracket, Eight, Semicolon>>)
        /\ Terminated(s) < 2
        /\ \A i \in 1..Len(s) : ~IsStIllegal(s[i])

\* C25: on a buffer it has to wait on, the tokenizer answers "incomplete",
\* and whenever it answers "incomplete" it removes no character: the buffer
\* and the style are what they were before the step and no block is
\* delivered for it.
C25_IncompleteChangesNothing ==
  /\ (last.type # "none" /\ MustWait(last.before)) => last.type = "INCESC"
  /\ last.type = "INCESC"
       => /\ buffer = last.before
          /\ style = last.style
          /\ Len(out) = last.delivered

\* C25 witness: after "a" was delivered, the tokenizer has answered
\* "incomplete" on a hyperlink of which only the first terminator is there
C25_Witness ==
  /\ last.type = "INCESC"
  /\ HasAt(last.before, 1, <<ESC, RBracket, Eight, Semicolon>>)
  /\ Terminated(last.before) = 1
  /\ buffer = last.before
  /\ Len(out) = 1

\* s is a suffix of t
IsSuffix(s, t) == Len(s) <= Len(t) /\ SubSeq(t, Len(t) - Len(s) + 1, Len(t)) = s

\* C26: in every state the buffer is a suffix of all the text given to write
\* since the last flush (or since construction); a step of the tokenizer only
\* removes characters from the front of the buffer, and the buffer grows only
\* when write appends its text.
C26_BufferIsSuffix ==
  /\ [](IsSuffix(buffer, written))
  /\ [][/\ pc = "write" => IsSuffix(buffer', buffer)
        /\ Len(buffer') > Len(buffer)
             => (pc = "idle" /\ call'.op = "write" /\ buffer' = buffer \o call'.text)]_vars

\* C26 witness: of the written "a ESC [" the text "a" has been delivered and
\* ESC [ is what the buffer holds
C26_Witness ==
  /\ written = <<97, ESC, LBracket>>
  /\ buffer = <<ESC, LBracket>>
  /\ Len(out) = call.delivered + 1

CallerMutates == Len(out') = Len(out) /\ out' # out

\* C24: a delivered block is a value snapshot that the core no longer refers
\* to.  No later write, flush or SGR sequence alters a block already
\* delivered; and no write the caller makes into a delivered block, the
\* elements of its color or background triple included, changes the session
\* style or the palette (and with them the style of the blocks delivered
\* afterwards).
C24_BlockIsSnapshot ==
  [][/\ Len(out') >= Len(out)
     /\ ~CallerMutates => SubSeq(out', 1, Len(out)) = out
     /\ CallerMutates => /\ style' = style
                         /\ colors16' = colors16
                         /\ colors256' = colors256]_vars

\* What the code keeps of C24: the steps of write and flush leave the blocks
\* already delivered as they are
CoreKeepsDeliveredBlocks ==
  [][~CallerMutates => (Len(out') >= Len(out) /\ SubSeq(out', 1, Len(out)) = out)]_vars

\* The write the callback made into the block "x" of code 31 shows in the
\* block "y" that the next write of code 31 delivers
MutationReachesLaterBlock ==
  /\ theme = [red |-> <<7, 0, 0>>]
  /\ Len(out) = 2
  /\ out[1].value = <<120>> /\ out[1].style.color = <<7, 0, 0>>
  /\ out[2].value = <<121>> /\ out[2].style.color = <<7, 0, 0>>
  /\ written = Sgr(Params(<<31>>)) \o <<120>> \o Sgr(Params(<<31>>)) \o <<121>>

====
